---- MODULE Spec2Model ----
(***************************************************************************)
(* The account and preference data model of server/models/user.py:         *)
(* UserOptions (the spec's AccountOptions) and User (the spec's Account),   *)
(* their serialisation, the bcrypt credential primitives and the lookup     *)
(* by name, over a store with the two tables the models declare.            *)
(*                                                                         *)
(* Python values are written as the strings of their literals ("None",      *)
(* "False", "0", "#000"), so that one mapping can hold values of every      *)
(* column type.  Row ids are the strings "1", "2", ...                      *)
(***************************************************************************)
EXTENDS Naturals, Sequences, FiniteSets

VARIABLES
    optTable,         \* the stored UserOptions rows
    userTable,        \* the stored User rows
    acct,             \* the in-memory User instance the callers hold
    plain,            \* history: plaintext of the latest completed set_password on acct
    prev,             \* history: plaintext of the completed set_password before that
    ret,              \* the last call: [op, arg, val, exc]
    edits             \* number of preference updates made so far

vars == <<optTable, userTable, acct, plain, prev, ret, edits>>

\* ------------------------------------------------------------------ bounds

MaxOptions == 2
MaxUsers == 2
MaxSalt == 2
MaxEdits == 2

\* ------------------------------------------------------------ Python values

None == "None"

NoExc == ""

\* ------------------------------------------------------------------ row ids

IdStr == <<"1", "2", "3", "4", "5", "6">>

IdIndex(s) == CHOOSE i \in 1..Len(IdStr) : IdStr[i] = s

Largest(S) == CHOOSE n \in S : \A m \in S : m <= n

\* the integer primary key the store assigns on insert: one more than the largest in use
NextId(table) ==
    IF table = {} THEN IdStr[1]
    ELSE IdStr[Largest({IdIndex(r.id) : r \in table}) + 1]

\* the bound on a table: no id beyond max is handed out
HasRoom(table, max) ==
    IF table = {} THEN 0 < max ELSE Largest({IdIndex(r.id) : r \in table}) < max

\* ------------------------------------------------------------- UserOptions

\* the thirteen preference columns with the default each declares
OptionDefaults ==
    [ fow_colour |-> "#000",
      grid_colour |-> "#000",
      ruler_colour |-> "#F00",
      invert_alt |-> "False",
      disable_scroll_to_zoom |-> "False",
      use_high_dpi |-> "False",
      grid_size |-> "50",
      use_as_physical_board |-> "False",
      mini_size |-> "1",
      ppi |-> "96",
      initiative_camera_lock |-> "False",
      initiative_vision_lock |-> "False",
      initiative_effect_visibility |-> "active" ]

OptionFields == DOMAIN OptionDefaults

OptionColumns == {"id"} \cup OptionFields

TextFields == {"fow_colour", "grid_colour", "ruler_colour", "initiative_effect_visibility"}

IntegerFields == {"grid_size", "ppi"}

FloatFields == {"mini_size"}

\* what a column may hold: null=True on every one of them, else a value of its type
OptionValues(f) ==
    IF f \in TextFields THEN {None, "", "#0F0"}
    ELSE IF f \in IntegerFields THEN {None, "0", "25"}
    ELSE IF f \in FloatFields THEN {None, "0.0", "1.5"}
    ELSE {None, "False", "True"}

\* Model.create(**kwargs): every column starts at its default, the keyword
\* arguments given override it, and the row is inserted under a new id
UserOptions_create(kwargs, id) ==
    [f \in OptionColumns |->
        IF f = "id" THEN id
        ELSE IF f \in DOMAIN kwargs THEN kwargs[f]
        ELSE OptionDefaults[f]]

\* the keyword arguments create_empty passes, each None
CreateEmptyKwargs ==
    [f \in { "fow_colour", "grid_colour", "ruler_colour", "invert_alt",
             "disable_scroll_to_zoom", "use_high_dpi", "grid_size",
             "use_as_physical_board", "initiative_camera_lock",
             "initiative_vision_lock", "initiative_effect_visibility" } |-> None]

\* playhouse's model_to_dict without recursion: every column not excluded, None included
model_to_dict(self, columns, exclude) == [f \in columns \ exclude |-> self[f]]

\* Python truthiness of a value
Truthy(v) == v \notin {None, "False", "0", "0.0", ""}

UserOptions_as_dict_truthy(self) ==
    LET d == model_to_dict(self, OptionColumns, {"id"})
    IN  [k \in {k \in DOMAIN d : Truthy(d[k])} |-> d[k]]

UserOptions_as_dict(self) ==
    LET d == model_to_dict(self, OptionColumns, {"id"})
    IN  [k \in {k \in DOMAIN d : d[k] # None} |-> d[k]]

\* a call's record; arg and val are empty sets when the call has none
Call(op, arg, val, exc) == [op |-> op, arg |-> arg, val |-> val, exc |-> exc]

create_empty ==
    /\ HasRoom(optTable, MaxOptions)
    /\ LET row == UserOptions_create(CreateEmptyKwargs, NextId(optTable))
       IN  /\ optTable' = optTable \cup {row}
           /\ ret' = Call("create_empty", {}, {row}, NoExc)
    /\ UNCHANGED <<userTable, acct, plain, prev, edits>>

\* a preference update: one column of a stored row set to a value or back to None, and saved
SetOption(id, f, v) ==
    /\ edits < MaxEdits
    /\ \E row \in optTable :
          /\ row.id = id
          /\ row[f] # v
          /\ optTable' = (optTable \ {row}) \cup {[row EXCEPT ![f] = v]}
    /\ edits' = edits + 1
    /\ ret' = Call("set_option", {}, {}, NoExc)
    /\ UNCHANGED <<userTable, acct, plain, prev>>

CallOptionsAsDict(id) ==
    /\ \E row \in optTable :
          /\ row.id = id
          /\ ret' = Call("UserOptions.as_dict", {row}, {UserOptions_as_dict(row)}, NoExc)
    /\ UNCHANGED <<optTable, userTable, acct, plain, prev, edits>>

\* -------------------------------------------------------------------- User

UserColumns == {"id", "name", "email", "password_hash", "default_options"}

\* the text of the password_hash column, as the tuple of its parts:
\* <<>> is None, <<"$2b$", salt, digest>> is bcrypt's output, anything else is no hash
NoHash == <<>>

Malformed == <<"not-a-bcrypt-hash">>

\* a plaintext bcrypt accepts, by its UTF-8 encoding (line 73):
\* <<the first 72 bytes, the bytes after them>>.
\* "F" is a head of full 72 bytes; only a full head has bytes after it.
Plaintexts == {<<"p", "">>, <<"q", "">>, <<"F", "">>, <<"F", "x">>, <<"F", "y">>}

NoPlain == <<>>

Salts == 1..MaxSalt

\* bcrypt.hashpw(password, salt): the password is cut to its first 72 bytes; the digest
\* is a one-way function of the salt and of those bytes, written here as that pair itself
hashpw(pw, salt) == <<"$2b$", salt, pw[1]>>

\* bcrypt.checkpw(password, hashed): re-hash under the salt read from hashed and
\* compare; a text that holds no salt is refused with ValueError("Invalid salt")
checkpw(pw, hashed) ==
    IF Len(hashed) # 3
    THEN [exc |-> "ValueError", val |-> None]
    ELSE [exc |-> NoExc, val |-> IF hashpw(pw, hashed[2]) = hashed THEN "True" ELSE "False"]

check_password_unguarded(self, pw) ==
    IF self.password_hash = NoHash
    THEN [exc |-> "AttributeError", val |-> None]
    ELSE checkpw(pw, self.password_hash)

check_password_any(self, pw) ==
    IF self.password_hash = NoHash
    THEN [exc |-> NoExc, val |-> "False"]
    ELSE LET r == checkpw(pw, self.password_hash)
         IN  IF r.exc # NoExc THEN r ELSE [exc |-> NoExc, val |-> "True"]

check_password(self, pw) ==
    IF self.password_hash = NoHash
    THEN [exc |-> NoExc, val |-> "False"]
    ELSE checkpw(pw, self.password_hash)

User_as_dict_with_hash(self) == model_to_dict(self, UserColumns, {"id", "default_options"})

User_as_dict(self) ==
    model_to_dict(self, UserColumns, {"id", "password_hash", "default_options"})

\* User(name=..., email=..., default_options=...): a new instance, not stored yet;
\* a column given no value is None (the empty name <<>> for name)
User_init(name, email, options) ==
    [ id |-> None, name |-> name, email |-> email,
      password_hash |-> NoHash, default_options |-> options ]

\* names are sequences of characters; a character is named by itself or by its code point
Chars == {"a", "A", "l", "U+00E9", "U+00C9"}

\* str.lower(): Unicode case mapping
PyLowerChar(c) ==
    IF c = "A" THEN "a" ELSE IF c = "U+00C9" THEN "U+00E9" ELSE c

PyLower(s) == [i \in 1..Len(s) |-> PyLowerChar(s[i])]

\* fn.Lower(column): SQL LOWER(), which in the SQLite store folds the ASCII letters only
SqlLowerChar(c) == IF c = "A" THEN "a" ELSE c

SqlLower(s) == [i \in 1..Len(s) |-> SqlLowerChar(s[i])]

OptionIds == {o.id : o \in optTable}

\* get_or_none(LOWER(name) = name.lower()): the values the call may return,
\* {} for None, {row} for the first row the query yields
by_name(name) ==
    LET found == {u \in userTable : SqlLower(u.name) = PyLower(name)}
    IN  IF found = {} THEN {{}} ELSE {{u} : u \in found}

\* ------------------------------------------------------------ User: actions

NewUser(name, email, options) ==
    /\ acct' = User_init(name, email, options)
    /\ plain' = NoPlain
    /\ prev' = NoPlain
    /\ ret' = Call("User", {}, {}, NoExc)
    /\ UNCHANGED <<optTable, userTable, edits>>

set_password_discarding(pw, salt) ==
    /\ plain' = pw
    /\ prev' = plain
    /\ ret' = Call("set_password", {pw}, {}, NoExc)
    /\ UNCHANGED <<acct, optTable, userTable, edits>>

set_password_saving(pw, salt) ==
    /\ acct' = [acct EXCEPT !.password_hash = hashpw(pw, salt)]
    /\ userTable' = {IF u.id = acct.id THEN acct' ELSE u : u \in userTable}
    /\ plain' = pw
    /\ prev' = plain
    /\ ret' = Call("set_password", {pw}, {}, NoExc)
    /\ UNCHANGED <<optTable, edits>>

\* salt is what bcrypt.gensalt() drew
set_password(pw, salt) ==
    /\ acct' = [acct EXCEPT !.password_hash = hashpw(pw, salt)]
    /\ plain' = pw
    /\ prev' = plain
    /\ ret' = Call("set_password", {pw}, {}, NoExc)
    /\ UNCHANGED <<optTable, userTable, edits>>

CallCheckPassword(pw) ==
    /\ LET r == check_password(acct, pw)
       IN  ret' = Call("check_password", {pw}, r.val, r.exc)
    /\ UNCHANGED <<optTable, userTable, acct, plain, prev, edits>>

CallUserAsDict ==
    /\ ret' = Call("User.as_dict", {}, {User_as_dict(acct)}, NoExc)
    /\ UNCHANGED <<optTable, userTable, acct, plain, prev, edits>>

\* a text written to the column by something other than set_password
AssignPasswordHash(h) ==
    /\ acct.password_hash # h
    /\ acct' = [acct EXCEPT !.password_hash = h]
    /\ plain' = NoPlain
    /\ prev' = NoPlain
    /\ ret' = Call("assign", {}, {}, NoExc)
    /\ UNCHANGED <<optTable, userTable, edits>>

\* the caller's commit: insert the instance under a new id, or update its row.
\* name, password_hash and default_options are NOT NULL, default_options a foreign key.
Save ==
    /\ acct.name # <<>>
    /\ acct.password_hash # NoHash
    /\ acct.default_options \in OptionIds
    /\ IF acct.id = None
       THEN /\ HasRoom(userTable, MaxUsers)
            /\ acct' = [acct EXCEPT !.id = NextId(userTable)]
            /\ userTable' = userTable \cup {acct'}
       ELSE /\ acct' = acct
            /\ userTable' = {IF u.id = acct.id THEN acct ELSE u : u \in userTable}
    /\ ret' = Call("save", {}, {}, NoExc)
    /\ UNCHANGED <<optTable, plain, prev, edits>>

\* provisioning: a new account on an options row no account owns yet,
\* its password set, then saved
CreateAccount(name, email, pw, salt, options) ==
    LET row == [User_init(name, email, options) EXCEPT
                   !.id = NextId(userTable), !.password_hash = hashpw(pw, salt)]
    IN  /\ HasRoom(userTable, MaxUsers)
        /\ options \in OptionIds
        /\ \A u \in userTable : u.default_options # options
        /\ userTable' = userTable \cup {row}
        /\ ret' = Call("create_account", {}, {row}, NoExc)
        /\ UNCHANGED <<optTable, acct, plain, prev, edits>>

CallByName(name) ==
    /\ \E r \in by_name(name) : ret' = Call("by_name", name, r, NoExc)
    /\ UNCHANGED <<optTable, userTable, acct, plain, prev, edits>>

\* DELETE of a User row: no other row refers to it through a column declared here
DeleteUser(id) ==
    /\ \E u \in userTable :
          /\ u.id = id
          /\ userTable' = userTable \ {u}
          /\ ret' = Call("User.delete", {u}, {}, NoExc)
    /\ UNCHANGED <<optTable, acct, plain, prev, edits>>

DeleteUserOptions_no_cascade(id) ==
    /\ \E o \in optTable :
          /\ o.id = id
          /\ optTable' = optTable \ {o}
          /\ ret' = Call("UserOptions.delete", {o}, {}, NoExc)
    /\ UNCHANGED <<userTable, acct, plain, prev, edits>>

\* DELETE of a UserOptions row: User.default_options is declared ON DELETE CASCADE,
\* so the User rows that refer to it go with it
DeleteUserOptions(id) ==
    /\ \E o \in optTable :
          /\ o.id = id
          /\ optTable' = optTable \ {o}
          /\ userTable' = {u \in userTable : u.default_options # id}
          /\ ret' = Call("UserOptions.delete", {o},
                         {u \in userTable : u.default_options = id}, NoExc)
    /\ UNCHANGED <<acct, plain, prev, edits>>

\* ------------------------------------------------------------ specifications

Emails == {None, "e@x"}

AccountName == <<"A", "l">>

StoreNames == {<<"a", "l">>, <<"A", "l">>, <<"U+00E9", "l">>, <<"U+00C9", "l">>}

ProvisionPw == <<"p", "">>

Init ==
    /\ optTable = {}
    /\ userTable = {}
    /\ acct = User_init(<<>>, None, None)
    /\ plain = NoPlain
    /\ prev = NoPlain
    /\ ret = Call("", {}, {}, NoExc)
    /\ edits = 0

\* every operation, on every input.  The claims are checked under the three
\* specifications below, each the operations of one part of Next, explored in full.
Next ==
    \/ create_empty
    \/ \E o \in optTable, f \in OptionFields : \E v \in OptionValues(f) : SetOption(o.id, f, v)
    \/ \E o \in optTable : CallOptionsAsDict(o.id)
    \/ \E n \in StoreNames, e \in Emails, o \in OptionIds : NewUser(n, e, o)
    \/ \E pw \in Plaintexts, salt \in Salts : set_password(pw, salt)
    \/ \E pw \in Plaintexts : CallCheckPassword(pw)
    \/ CallUserAsDict
    \/ AssignPasswordHash(Malformed)
    \/ Save
    \/ \E n \in StoreNames, e \in Emails, pw \in Plaintexts, salt \in Salts, o \in OptionIds :
          CreateAccount(n, e, pw, salt, o)
    \/ \E n \in StoreNames : CallByName(n)
    \/ \E u \in userTable : DeleteUser(u.id)
    \/ \E o \in optTable : DeleteUserOptions(o.id)

Spec == Init /\ [][Next]_vars

\* one preference record and the updates made to it
NextOptions ==
    \/ optTable = {} /\ create_empty
    \/ \E o \in optTable, f \in OptionFields : \E v \in OptionValues(f) : SetOption(o.id, f, v)
    \/ \E o \in optTable : CallOptionsAsDict(o.id)

SpecOptions == Init /\ [][NextOptions]_vars

\* one account from construction on: its credential, its serialisation, its commits
NextCredentials ==
    \/ optTable = {} /\ create_empty
    \/ \E e \in Emails, o \in OptionIds : userTable = {} /\ NewUser(AccountName, e, o)
    \/ \E pw \in Plaintexts, salt \in Salts : set_password(pw, salt)
    \/ \E pw \in Plaintexts : CallCheckPassword(pw)
    \/ CallUserAsDict
    \/ AssignPasswordHash(Malformed)
    \/ Save

SpecCredentials == Init /\ [][NextCredentials]_vars

\* the two tables: provisioning, lookup by name, deletion
NextStore ==
    \/ create_empty
    \/ \E n \in StoreNames, o \in OptionIds : CreateAccount(n, None, ProvisionPw, 1, o)
    \/ \E n \in StoreNames : CallByName(n)
    \/ \E u \in userTable : DeleteUser(u.id)
    \/ \E o \in optTable : DeleteUserOptions(o.id)

SpecStore == Init /\ [][NextStore]_vars

\* ------------------------------------------------------------------ claims

Returned(val) == [exc |-> NoExc, val |-> val]

\* C1: whatever the account's state, the mapping User.as_dict() returns has exactly
\* the keys name and email, holding the account's name and email: no key for the
\* password hash, the id or the default_options reference.
C1_AccountDictKeys ==
    /\ DOMAIN User_as_dict(acct) = {"name", "email"}
    /\ ret.op = "User.as_dict" =>
          \A d \in ret.val :
              /\ DOMAIN d = {"name", "email"}
              /\ d.name = acct.name
              /\ d.email = acct.email

C1_Witness ==
    /\ ret.op = "User.as_dict"
    /\ plain # NoPlain
    /\ Len(acct.password_hash) = 3
    /\ acct.email # None

\* C2: the record create_empty() creates has every one of the thirteen preference
\* fields null, and as_dict() of it is the empty mapping.
C2_CreateEmptyAllNull ==
    ret.op = "create_empty" =>
        \A row \in ret.val :
            /\ \A f \in OptionFields : row[f] = None
            /\ DOMAIN UserOptions_as_dict(row) = {}

C4_OptionsDictNonNull ==
    ret.op = "UserOptions.as_dict" =>
        \A row \in ret.arg : \A d \in ret.val :
            /\ row \in optTable
            /\ DOMAIN d = {f \in OptionFields : row[f] # None}
            /\ \A k \in DOMAIN d : d[k] = row[k] /\ d[k] # None
            /\ "id" \notin DOMAIN d

C4_Witness ==
    /\ ret.op = "UserOptions.as_dict"
    /\ edits > 0
    /\ \E row \in ret.arg : \E d \in ret.val :
          /\ \E f \in OptionFields : row[f] = None
          /\ \E k \in DOMAIN d : d[k] \in {"False", "0", "0.0", ""}

C7_NoPasswordFailsClosed ==
    acct.password_hash = NoHash =>
        /\ \A c \in Plaintexts : check_password(acct, c) = Returned("False")
        /\ ret.op = "check_password" => ret.exc = NoExc /\ ret.val = "False"

C7_Witness ==
    /\ acct.password_hash = NoHash
    /\ ret.op = "check_password"
    /\ ret.exc = NoExc
    /\ ret.val = "False"

\* C8: by_name(n) returns an account whose name equals n once both are lowercased
\* whenever one is stored, and returns no record, raising nothing, when none is.
C8_ByNameCaseInsensitive ==
    ret.op = "by_name" =>
        LET same == {u \in userTable : PyLower(u.name) = PyLower(ret.arg)}
        IN  /\ ret.exc = NoExc
            /\ IF same = {} THEN ret.val = {} ELSE ret.val # {} /\ ret.val \subseteq same

\* C9: check_password returns a boolean and raises nothing, also when the stored
\* hash is a text that is no well-formed hash, for which it returns False.
C9_CheckNeverRaises ==
    ret.op = "check_password" =>
        /\ ret.exc = NoExc
        /\ ret.val \in {"True", "False"}
        /\ Len(acct.password_hash) = 1 => ret.val = "False"

\* C10: a set_password step changes nothing but the password_hash of the in-memory
\* account, the stored rows included; a check_password step changes neither the
\* in-memory account nor the stored rows.
C10_PasswordStepsFrame ==
    [][ /\ ret'.op = "set_password" =>
              /\ userTable' = userTable
              /\ optTable' = optTable
              /\ \A f \in UserColumns \ {"password_hash"} : acct'[f] = acct[f]
        /\ ret'.op = "check_password" =>
              /\ userTable' = userTable
              /\ optTable' = optTable
              /\ acct' = acct ]_vars

C10_Witness ==
    /\ ret.op = "set_password"
    /\ \E u \in userTable : u.id = acct.id /\ u.password_hash # acct.password_hash

====
